---- MODULE Spec2Model ----
(***************************************************************************)
(* Adaptive tutorial agent: TutorialEnvironment, the three policies        *)
(* (QLearningAgent, ThompsonSamplingAgent, HybridAgent) and the            *)
(* ExperimentRunner that drives them.                                      *)
(*                                                                         *)
(* Number representation.  The program computes with IEEE doubles; the     *)
(* model computes with exact decimals held as integers:                    *)
(*   performance, learn_rate        thousandths   (0.5  -> 500)            *)
(*   fatigue, fatigue_rate          hundredths    (0.02 -> 2)              *)
(*   base_prob, difficulty_factors  tenths        (1.3  -> 13)             *)
(*   success probability            1e-7          (0.95 -> 9500000)        *)
(*   reward, action values          thousandths   (0.5  -> 500)            *)
(* Every quantity of the environment is a finite decimal, so these are     *)
(* exact.  Action values are kept in fixed point (the quotients of the     *)
(* update rule are rounded down to a thousandth), where the program rounds *)
(* to the nearest double.                                                  *)
(*                                                                         *)
(* Python objects.  A State is a mutable object; `heap` maps references to *)
(* the objects' fields, and env_state, state and next_state hold           *)
(* references, so that two names for one object see each other's writes.   *)
(***************************************************************************)
EXTENDS Integers, Sequences, FiniteSets, TLC

VARIABLES
    \* TutorialEnvironment
    profile,            \* name of self.profile in learner_profiles, "none" before construction
    heap,               \* State objects by reference
    env_state,          \* self.state (a reference)
    fatigue,            \* self.fatigue
    \* the policy objects
    agent_class,        \* class of self.agent
    epsilon,            \* QLearningAgent.epsilon, hundredths
    q_table,            \* QLearningAgent.q_table: function from the keys present to 4 action values
    alpha,              \* ThompsonSamplingAgent.alpha
    beta,               \* ThompsonSamplingAgent.beta
    \* ExperimentRunner
    agent_type,         \* self.agent_type (the name passed in)
    env_type,           \* the env_type passed to ExperimentRunner
    metrics,            \* self.metrics
    \* run_experiment's frame
    n_episodes, episode, report, error,
    \* run_episode's frame, and the caller's bindings of what reset/step/select_action return
    state, next_state, action, reward, done, info,
    episode_reward, successes, actions_taken,
    pc,                 \* position of the program
    \* history of the last calls
    last_call,          \* "none", "reset", "step", "select", "update"
    step_trace,         \* what the last step read and computed
    sel_trace,          \* what the last select_action read
    upd_trace,          \* what the last update read and computed
    keys_passed,        \* discretized keys of every State passed to select_action / update so far
    keys_looked_up,     \* keys of the q_table subscripts evaluated so far
    n_steps,            \* number of step calls made by the runner
    n_selects,          \* number of select_action calls made on self.agent
    n_updates,          \* number of update calls made on self.agent
    outcomes,           \* per action, the runner's step calls that succeeded and that failed
    steps_since_reset,  \* number of step calls since the last reset
    success_run         \* successful step calls since the last failed one or the last reset

env_vars == <<profile, heap, env_state, fatigue>>
agent_vars == <<agent_class, epsilon, q_table, alpha, beta>>
runner_vars == <<agent_type, env_type, metrics, n_episodes, episode, report, error>>
frame_vars == <<state, next_state, action, reward, done, info>>
tally_vars == <<episode_reward, successes, actions_taken>>
agent_hist == <<sel_trace, upd_trace, keys_passed, keys_looked_up>>
count_vars == <<n_steps, n_selects, n_updates, outcomes>>
vars == <<env_vars, agent_vars, runner_vars, frame_vars, tally_vars, pc,
          last_call, step_trace, agent_hist, count_vars, steps_since_reset, success_run>>

----------------------------------------------------------------------------
\* Bounds of the model
MaxQuestions == 20      \* step calls allowed between two resets when the environment is driven directly
MaxCalls == 2           \* select_action and update calls made when a policy is driven directly
MaxFreeSteps == 1       \* steps of an experiment whose random draws are all explored
MaxEpisodes == 2        \* episodes an experiment is followed for

\* Iterations of run_episode's loop explored with every draw (SamplingSpec)
MaxSampledSteps == 3

\* Changes of reward from one episode to the next (ConvergenceSpec)
MaxRewardChanges == 1

----------------------------------------------------------------------------
\* Values

None == "none"
Absent == 0 - 1         \* Python's None where the program otherwise holds a number
Actions == 0 .. 3
Refs == {1}
NoRef == Absent

Min(a, b) == IF a < b THEN a ELSE b
Max(a, b) == IF a > b THEN a ELSE b

ProfileNames == {"fast", "average", "slow"}

base_prob(p) == CASE p = "fast" -> 8 [] p = "average" -> 6 [] p = "slow" -> 4
learn_rate(p) == CASE p = "fast" -> 150 [] p = "average" -> 80 [] p = "slow" -> 40
fatigue_rate(p) == CASE p = "fast" -> 1 [] p = "average" -> 2 [] p = "slow" -> 3

difficulty_factors == [d \in Actions |-> CASE d = 0 -> 13 [] d = 1 -> 10 [] d = 2 -> 7 [] d = 3 -> 5]

EpisodeLength == 20

\* State(performance, streak, questions_answered, difficulty)
NewState(p, s, q, d) ==
    [performance |-> p, streak |-> s, questions_answered |-> q, difficulty |-> d]

\* State.to_key: int(performance * 10), min(streak, 5), difficulty.  The
\* program joins the three numbers with "_"; the numbers are non-negative, so
\* the string determines the triple and the triple stands for the string.
to_key(s) == << s.performance \div 100, Min(s.streak, 5), s.difficulty >>

----------------------------------------------------------------------------
\* TutorialEnvironment, as functions of the fields it reads

clip(x, lo, hi) == IF x < lo THEN lo ELSE IF x > hi THEN hi ELSE x

\* _calculate_success_probability, in units of 1e-7
SuccessProbabilityNoClip(p, s, fat, difficulty) ==
    LET base == base_prob(p) * s.performance
        prob == base * difficulty_factors[difficulty] * (100 - fat)
        streak_bonus == Min(10, s.streak * 2)
    IN  prob + streak_bonus * 100000

_calculate_success_probability(p, s, fat, difficulty) ==
    LET base == base_prob(p) * s.performance
        prob == base * difficulty_factors[difficulty] * (100 - fat)
        streak_bonus == Min(10, s.streak * 2)
    IN  clip(prob + streak_bonus * 100000, 500000, 9500000)

\* The State object after step's writes
SteppedStateNoCap(p, s, a, success) ==
    [performance |-> IF success THEN s.performance + learn_rate(p)
                     ELSE Max(0, s.performance - learn_rate(p) \div 2),
     streak |-> IF success THEN s.streak + 1 ELSE 0,
     questions_answered |-> s.questions_answered + 1,
     difficulty |-> a]

SteppedState(p, s, a, success) ==
    [performance |-> IF success THEN Min(1000, s.performance + learn_rate(p))
                     ELSE Max(0, s.performance - learn_rate(p) \div 2),
     streak |-> IF success THEN s.streak + 1 ELSE 0,
     questions_answered |-> s.questions_answered + 1,
     difficulty |-> a]

\* _calculate_reward up to the end of its if/else: the reward before the
\* three adjustments.  s is self.state as it is when step calls
\* _calculate_reward, that is before step updates it.
BaseRewardPostStreak(s, difficulty, success) ==
    IF success
    THEN (difficulty + 1) * 2000
         + (IF s.streak + 1 > 3 THEN 1000 ELSE 0)
         + (IF s.streak + 1 > 5 THEN 1000 ELSE 0)
    ELSE 0 - (4 - difficulty) * 1000

BaseRewardFailureFromThree(s, difficulty, success) ==
    IF success
    THEN (difficulty + 1) * 2000
         + (IF s.streak > 3 THEN 1000 ELSE 0)
         + (IF s.streak > 5 THEN 1000 ELSE 0)
    ELSE 0 - (3 - difficulty) * 1000

BaseReward(s, difficulty, success) ==
    IF success
    THEN (difficulty + 1) * 2000
         + (IF s.streak > 3 THEN 1000 ELSE 0)
         + (IF s.streak > 5 THEN 1000 ELSE 0)
    ELSE 0 - (4 - difficulty) * 1000

\* _calculate_reward: the whole reward
RewardOnSteppedState(p, s, fat, difficulty, success) ==
    LET t == SteppedState(p, s, difficulty, success)
        success_prob == _calculate_success_probability(p, t, fat, difficulty)
    IN  BaseReward(s, difficulty, success)
        + (IF 4000000 <= success_prob /\ success_prob <= 7000000 THEN 500 ELSE 0)
        - (IF t.performance > 700 /\ difficulty = 0 THEN 1000 ELSE 0)
        - (IF t.performance < 300 /\ difficulty = 3 THEN 1000 ELSE 0)

_calculate_reward(p, s, fat, difficulty, success) ==
    LET success_prob == _calculate_success_probability(p, s, fat, difficulty)
    IN  BaseReward(s, difficulty, success)
        + (IF 4000000 <= success_prob /\ success_prob <= 7000000 THEN 500 ELSE 0)
        - (IF s.performance > 700 /\ difficulty = 0 THEN 1000 ELSE 0)
        - (IF s.performance < 300 /\ difficulty = 3 THEN 1000 ELSE 0)

\* self.fatigue after a step
NextFatigueNoCap(p, f) == f + fatigue_rate(p)

NextFatigue(p, f) == Min(50, f + fatigue_rate(p))

IsDoneOffByOne(s) == s.questions_answered > EpisodeLength

IsDone(s) == s.questions_answered >= EpisodeLength

\* reset builds a new State object and binds self.state to it.  The object it
\* replaces is unreachable once the caller has bound the returned reference
\* (no name keeps the old one), so the new object takes the freed reference.
FreshRef(r) == CHOOSE x \in Refs : TRUE

\* reset(): the new State object and the fatigue it leaves
ResetKeepsFatigue(f) == [state |-> NewState(500, 0, 0, 1), fatigue |-> f]

reset(f) == [state |-> NewState(500, 0, 0, 1), fatigue |-> 0]

\* reset() as a call: the caller binds the returned reference to `state`
Reset ==
    LET r == FreshRef(env_state) IN
    /\ heap' = [x \in Refs |-> IF x = r THEN reset(fatigue).state ELSE None]
    /\ env_state' = r
    /\ fatigue' = reset(fatigue).fatigue
    /\ state' = r
    /\ next_state' = NoRef
    /\ steps_since_reset' = 0
    /\ success_run' = 0
    /\ last_call' = "reset"

\* step(a) with the draw np.random.random() < success_prob coming out as
\* `success`; both outcomes are possible because 0.05 <= success_prob <= 0.95.
\* The caller binds the returned tuple to next_state, reward, done, info.
Step(a, success) ==
    LET s == heap[env_state]
        success_prob == _calculate_success_probability(profile, s, fatigue, a)
        r == _calculate_reward(profile, s, fatigue, a, success)
        t == SteppedState(profile, s, a, success)
    IN  /\ heap' = [heap EXCEPT ![env_state] = t]
        /\ fatigue' = NextFatigue(profile, fatigue)
        /\ next_state' = env_state
        /\ reward' = r
        /\ done' = IsDone(t)
        /\ info' = [success |-> success,
                    performance_change |-> t.performance - s.performance,
                    success_probability |-> success_prob]
        /\ step_trace' = [action |-> a, success |-> success, before |-> s,
                          fatigue |-> fatigue]
        /\ steps_since_reset' = steps_since_reset + 1
        /\ success_run' = IF success THEN success_run + 1 ELSE 0
        /\ last_call' = "step"
        /\ UNCHANGED <<profile, env_state>>

----------------------------------------------------------------------------
\* The policies, as functions of the fields they read

ZeroValues == [a \in Actions |-> 0]
Ones == [a \in Actions |-> 1]

\* q_table is defaultdict(lambda: np.zeros(action_space)): evaluating
\* q_table[k] for an absent k stores a zero vector under k.
TouchNoInsert(q, k) == q

Touch(q, k) ==
    IF k \in DOMAIN q THEN q
    ELSE [x \in DOMAIN q \cup {k} |-> IF x = k THEN ZeroValues ELSE q[x]]

ValuesAt(q, k) == IF k \in DOMAIN q THEN q[k] ELSE ZeroValues

\* np.max over the 4 action values
MaxValue(v) == CHOOSE m \in {v[a] : a \in Actions} : \A a \in Actions : v[a] <= m

\* np.where(q_values == max_q)[0]
BestActionsFirstIndex(v) ==
    {CHOOSE a \in Actions : v[a] = MaxValue(v) /\ \A b \in Actions : v[b] = MaxValue(v) => a <= b}

BestActions(v) == {a \in Actions : v[a] = MaxValue(v)}

\* QLearningAgent.select_action: the possible results, each with the table
\* it leaves.  np.random.random() is in [0, 1): the first branch can be taken
\* when epsilon > 0, the second when epsilon < 1.
QSelectOutcomes(q, eps, s) ==
    LET k == to_key(s)
        q1 == Touch(q, k)
    IN  (IF eps > 0
         THEN {[action |-> a, q |-> q, by |-> "explore"] : a \in Actions}
         ELSE {})
        \cup
        (IF eps < 100
         THEN {[action |-> a, q |-> q1, by |-> "greedy"] : a \in BestActions(ValuesAt(q1, k))}
         ELSE {})

\* QLearningAgent.update: the table it leaves.  learning_rate = 0.1,
\* discount_factor = 0.95.
QUpdate(q, s, a, r, ns, d) ==
    LET state_key == to_key(s)
        next_state_key == to_key(ns)
        q1 == Touch(q, state_key)
        current_q == ValuesAt(q1, state_key)[a]
        q2 == IF d THEN q1 ELSE Touch(q1, next_state_key)
        target == IF d THEN r
                  ELSE r + (95 * MaxValue(ValuesAt(q2, next_state_key))) \div 100
    IN  [x \in DOMAIN q2 |->
            IF x = state_key
            THEN [q2[x] EXCEPT ![a] = q2[x][a] + (target - current_q) \div 10]
            ELSE q2[x]]

\* ThompsonSamplingAgent.select_action: argmax of one Beta(alpha, beta) sample
\* per action.  Every Beta(a, b) with a, b >= 1 has the whole of (0, 1) as
\* support, so every action can be the argmax.
ThompsonSelectOutcomes == {[action |-> a, by |-> "thompson"] : a \in Actions}

\* ThompsonSamplingAgent.update: the counters it leaves
ThompsonUpdateSkipped(al, be, a, r) == [alpha |-> al, beta |-> be]

ThompsonUpdateZeroIsSuccess(al, be, a, r) ==
    IF r >= 0
    THEN [alpha |-> [al EXCEPT ![a] = al[a] + 1], beta |-> be]
    ELSE [alpha |-> al, beta |-> [be EXCEPT ![a] = be[a] + 1]]

ThompsonUpdate(al, be, a, r) ==
    IF r > 0
    THEN [alpha |-> [al EXCEPT ![a] = al[a] + 1], beta |-> be]
    ELSE [alpha |-> al, beta |-> [be EXCEPT ![a] = be[a] + 1]]

HasTable(c) == c \in {"QLearningAgent", "HybridAgent"}
HasCounters(c) == c \in {"ThompsonSamplingAgent", "HybridAgent"}

\* get_q_table_size of the three classes
get_q_table_size(c, q) == IF HasTable(c) THEN Cardinality(DOMAIN q) ELSE 0

\* The policy objects as constructed: QLearningAgent() has epsilon 0.2,
\* HybridAgent() builds QLearningAgent(action_space, epsilon=0) and
\* ThompsonSamplingAgent(action_space).
NewAgent(c) ==
    [epsilon |-> IF c = "QLearningAgent" THEN 20 ELSE 0,
     q_table |-> << >>,
     alpha |-> IF HasCounters(c) THEN Ones ELSE << >>,
     beta |-> IF HasCounters(c) THEN Ones ELSE << >>]

\* self.agent.select_action(s), s being the fields of the State passed.
\* HybridAgent: np.random.random() < exploration_rate (0.3) can come out
\* either way.
SelectAction(s) ==
    /\ \/ /\ agent_class = "QLearningAgent"
          /\ \E o \in QSelectOutcomes(q_table, epsilon, s) :
                /\ action' = o.action
                /\ q_table' = o.q
                /\ sel_trace' = [key |-> to_key(s), by |-> o.by,
                                 size_before |-> Cardinality(DOMAIN q_table)]
                /\ keys_passed' = keys_passed \cup {to_key(s)}
                /\ keys_looked_up' = IF o.by = "greedy"
                                     THEN keys_looked_up \cup {to_key(s)}
                                     ELSE keys_looked_up
       \/ /\ agent_class = "ThompsonSamplingAgent"
          /\ \E o \in ThompsonSelectOutcomes :
                /\ action' = o.action
                /\ sel_trace' = [key |-> to_key(s), by |-> o.by,
                                 size_before |-> Cardinality(DOMAIN q_table)]
          /\ UNCHANGED <<q_table, keys_passed, keys_looked_up>>
       \/ /\ agent_class = "HybridAgent"
          /\ \/ \E o \in ThompsonSelectOutcomes :
                   /\ action' = o.action
                   /\ sel_trace' = [key |-> to_key(s), by |-> o.by,
                                    size_before |-> Cardinality(DOMAIN q_table)]
                   /\ UNCHANGED <<q_table, keys_passed, keys_looked_up>>
             \/ \E o \in QSelectOutcomes(q_table, epsilon, s) :
                   /\ action' = o.action
                   /\ q_table' = o.q
                   /\ sel_trace' = [key |-> to_key(s), by |-> o.by,
                                    size_before |-> Cardinality(DOMAIN q_table)]
                   /\ keys_passed' = keys_passed \cup {to_key(s)}
                   /\ keys_looked_up' = keys_looked_up \cup {to_key(s)}
    /\ last_call' = "select"
    /\ UNCHANGED <<agent_class, epsilon, alpha, beta, upd_trace>>

\* self.agent.update(s, a, r, ns, d), s and ns being the fields, at the time
\* of the call, of the State objects passed.  HybridAgent.update calls
\* q_agent.update and then thompson_agent.update.
Update(s, a, r, ns, d) ==
    /\ q_table' = IF HasTable(agent_class) THEN QUpdate(q_table, s, a, r, ns, d)
                  ELSE q_table
    /\ LET c == IF HasCounters(agent_class) THEN ThompsonUpdate(alpha, beta, a, r)
                ELSE [alpha |-> alpha, beta |-> beta]
       IN  alpha' = c.alpha /\ beta' = c.beta
    /\ upd_trace' = [state_key |-> to_key(s), next_state_key |-> to_key(ns),
                     action |-> a, reward |-> r, done |-> d,
                     q_before |-> q_table, alpha_before |-> alpha,
                     beta_before |-> beta]
    /\ keys_passed' = IF HasTable(agent_class)
                      THEN keys_passed \cup {to_key(s), to_key(ns)}
                      ELSE keys_passed
    /\ keys_looked_up' = IF HasTable(agent_class)
                         THEN keys_looked_up \cup {to_key(s)}
                                  \cup (IF d THEN {} ELSE {to_key(ns)})
                         ELSE keys_looked_up
    /\ last_call' = "update"
    /\ UNCHANGED <<agent_class, epsilon, sel_trace>>

----------------------------------------------------------------------------
\* The environment driven directly through reset and step

NoTrace == [action |-> None]
NoOutcomes == [a \in Actions |-> [succeeded |-> 0, failed |-> 0]]

EnvInit ==
    /\ profile \in ProfileNames
    /\ env_state = 1
    /\ heap = [x \in Refs |-> IF x = 1 THEN NewState(500, 0, 0, 1) ELSE None]
    /\ fatigue = 0
    /\ agent_class = None /\ epsilon = 0 /\ q_table = << >>
    /\ alpha = << >> /\ beta = << >>
    /\ agent_type = None /\ env_type = None /\ metrics = None
    /\ n_episodes = Absent /\ episode = 0 /\ report = None /\ error = None
    /\ state = 1 /\ next_state = NoRef /\ action = None /\ reward = 0
    /\ done = FALSE /\ info = None
    /\ episode_reward = 0 /\ successes = 0 /\ actions_taken = << >>
    /\ pc = "env"
    /\ last_call = "reset"
    /\ step_trace = NoTrace /\ sel_trace = NoTrace /\ upd_trace = NoTrace
    /\ keys_passed = {} /\ keys_looked_up = {}
    /\ n_steps = 0 /\ n_selects = 0 /\ n_updates = 0 /\ outcomes = NoOutcomes
    /\ steps_since_reset = 0 /\ success_run = 0

EnvReset ==
    /\ Reset
    /\ UNCHANGED <<profile, agent_vars, runner_vars, action, reward, done, info,
                   tally_vars, pc, step_trace, agent_hist, count_vars>>

EnvStep ==
    /\ steps_since_reset < MaxQuestions
    /\ \E a \in Actions, success \in BOOLEAN :
          /\ Step(a, success)
          /\ action' = a
    /\ UNCHANGED <<agent_vars, runner_vars, state, tally_vars,
                   pc, agent_hist, count_vars>>

EnvNext == EnvReset \/ EnvStep

EnvSpec == EnvInit /\ [][EnvNext]_vars

----------------------------------------------------------------------------
\* A policy driven directly through select_action and update

AgentClasses == {"QLearningAgent", "ThompsonSamplingAgent", "HybridAgent"}

\* The States, actions and rewards the calls are made with: two States with
\* one key and a third with another; a positive, a zero and a negative reward.
TestStates == {NewState(500, 0, 0, 1), NewState(540, 0, 1, 1), NewState(650, 1, 1, 0)}
TestActions == {0, 3}
TestRewards == {0 - 1000, 0, 2000}

AgentInit ==
    /\ agent_class \in AgentClasses
    /\ epsilon = NewAgent(agent_class).epsilon
    /\ q_table = NewAgent(agent_class).q_table
    /\ alpha = NewAgent(agent_class).alpha
    /\ beta = NewAgent(agent_class).beta
    /\ profile = None /\ env_state = NoRef /\ fatigue = 0
    /\ heap = [x \in Refs |-> None]
    /\ agent_type = None /\ env_type = None /\ metrics = None
    /\ n_episodes = Absent /\ episode = 0 /\ report = None /\ error = None
    /\ state = NoRef /\ next_state = NoRef /\ action = None /\ reward = 0
    /\ done = FALSE /\ info = None
    /\ episode_reward = 0 /\ successes = 0 /\ actions_taken = << >>
    /\ pc = "agent"
    /\ last_call = None
    /\ step_trace = NoTrace /\ sel_trace = NoTrace /\ upd_trace = NoTrace
    /\ keys_passed = {} /\ keys_looked_up = {}
    /\ n_steps = 0 /\ n_selects = 0 /\ n_updates = 0 /\ outcomes = NoOutcomes
    /\ steps_since_reset = 0 /\ success_run = 0

AgentSelect ==
    /\ n_selects + n_updates < MaxCalls
    /\ \E s \in TestStates : SelectAction(s)
    /\ n_selects' = n_selects + 1
    /\ UNCHANGED <<env_vars, runner_vars, state, next_state, reward, done, info,
                   tally_vars, pc, step_trace, n_steps, n_updates, outcomes, steps_since_reset, success_run>>

AgentUpdate ==
    /\ n_selects + n_updates < MaxCalls
    /\ \E s \in TestStates, ns \in TestStates, a \in TestActions,
          r \in TestRewards, d \in BOOLEAN :
          Update(s, a, r, ns, d)
    /\ n_updates' = n_updates + 1
    /\ UNCHANGED <<env_vars, runner_vars, frame_vars, tally_vars, pc, step_trace,
                   n_steps, n_selects, outcomes, steps_since_reset, success_run>>

AgentNext == AgentSelect \/ AgentUpdate

AgentSpec == AgentInit /\ [][AgentNext]_vars

----------------------------------------------------------------------------
\* ExperimentRunner

RECURSIVE SumSeq(_)
SumSeq(q) == IF q = << >> THEN 0 ELSE Head(q) + SumSeq(Tail(q))

MaxSeq(q) == CHOOSE m \in {q[i] : i \in DOMAIN q} : \A i \in DOMAIN q : q[i] <= m
MinSeq(q) == CHOOSE m \in {q[i] : i \in DOMAIN q} : \A i \in DOMAIN q : m <= q[i]

\* q[-k:] and q[:k] of a list with at least k elements
LastK(q, k) == SubSeq(q, Len(q) - k + 1, Len(q))
FirstK(q, k) == SubSeq(q, 1, k)

Abs(x) == IF x < 0 THEN 0 - x ELSE x

\* __init__'s choice of policy class: anything that is neither "qlearning"
\* nor "thompson" takes the else branch.
AgentClassOf(name) ==
    CASE name = "qlearning" -> "QLearningAgent"
      [] name = "thompson" -> "ThompsonSamplingAgent"
      [] OTHER -> "HybridAgent"

\* self.metrics["action_distribution"][action] += 1
TallyOverwrites(dist, a) == [dist EXCEPT ![a] = 1]

Tally(dist, a) == [dist EXCEPT ![a] = @ + 1]

NewMetrics ==
    [episode_rewards |-> << >>, success_rates |-> << >>,
     action_distribution |-> [a \in Actions |-> 0],
     performance_history |-> << >>, difficulty_history |-> << >>,
     convergence_episode |-> Absent, q_table_sizes |-> << >>]

\* _check_convergence(window=10, threshold=0.5) on the list of episode
\* rewards: the two means differ by less than 0.5 iff the two sums of 10
\* differ by less than 5.
_check_convergence(rewards) ==
    IF Len(rewards) < 20 THEN FALSE
    ELSE LET recent == LastK(rewards, 10)
             previous == FirstK(LastK(rewards, 20), 10)
         IN  Abs(SumSeq(recent) - SumSeq(previous)) < 5000

\* The body of run_experiment's loop after run_episode returned r in episode
\* e: the append and the convergence test
RecordEpisodeOverwrites(m, r, e) ==
    [m EXCEPT !.episode_rewards = Append(@, r),
              !.convergence_episode =
                  IF _check_convergence(Append(m.episode_rewards, r)) THEN e ELSE @]

RecordEpisode(m, r, e) ==
    [m EXCEPT !.episode_rewards = Append(@, r),
              !.convergence_episode =
                  IF _check_convergence(Append(m.episode_rewards, r)) /\ @ = Absent
                  THEN e ELSE @]

\* The improvement entry of the report, in whole percent (rounded down):
\* initial_avg and final_avg are sums of 10 divided by 10, so the quotient of
\* the averages is the quotient of the sums.
Improvement(rewards) ==
    IF Len(rewards) >= 20
    THEN LET initial == SumSeq(FirstK(rewards, 10))
             final == SumSeq(LastK(rewards, 10))
         IN  IF initial # 0 THEN ((final - initial) * 100) \div Abs(initial) ELSE 0
    ELSE 0

\* The entries of the report that are counts, sums or extrema; the means and
\* the standard deviation are left out.
ReportOf(m, name) ==
    [agent_type |-> name,
     total_episodes |-> Len(m.episode_rewards),
     total_reward |-> SumSeq(m.episode_rewards),
     max_reward |-> MaxSeq(m.episode_rewards),
     min_reward |-> MinSeq(m.episode_rewards),
     convergence_episode |-> m.convergence_episode,
     action_distribution |-> m.action_distribution,
     final_performance |-> IF m.performance_history # << >>
                           THEN m.performance_history[Len(m.performance_history)] ELSE 0,
     final_q_table_size |-> IF m.q_table_sizes # << >>
                            THEN m.q_table_sizes[Len(m.q_table_sizes)] ELSE 0,
     improvement |-> Improvement(m.episode_rewards)]

AgentTypeNames == {"qlearning", "thompson", "hybrid", "sarsa"}
EnvTypeNames == ProfileNames \cup {"expert"}
EpisodeCounts == {0, 1, 10, 501}

RunnerInit ==
    /\ profile = None /\ env_state = NoRef /\ fatigue = 0
    /\ heap = [x \in Refs |-> None]
    /\ agent_class = None /\ epsilon = 0 /\ q_table = << >>
    /\ alpha = << >> /\ beta = << >>
    /\ agent_type = None /\ env_type = None /\ metrics = None
    /\ n_episodes = Absent /\ episode = 0 /\ report = None /\ error = None
    /\ state = NoRef /\ next_state = NoRef /\ action = None /\ reward = 0
    /\ done = FALSE /\ info = None
    /\ episode_reward = 0 /\ successes = 0 /\ actions_taken = << >>
    /\ pc = "start"
    /\ last_call = None
    /\ step_trace = NoTrace /\ sel_trace = NoTrace /\ upd_trace = NoTrace
    /\ keys_passed = {} /\ keys_looked_up = {}
    /\ n_steps = 0 /\ n_selects = 0 /\ n_updates = 0 /\ outcomes = NoOutcomes
    /\ steps_since_reset = 0 /\ success_run = 0

\* ExperimentRunner(agent_type, env_type).  TutorialEnvironment.__init__
\* subscripts learner_profiles with env_type, which raises KeyError for a name
\* that is not a profile; nothing checks agent_type.
Construct ==
    /\ pc = "start"
    /\ \E an \in AgentTypeNames, en \in EnvTypeNames :
          /\ agent_type' = an
          /\ env_type' = en
          /\ IF en \notin ProfileNames
             THEN /\ pc' = "error"
                  /\ error' = "KeyError"
                  /\ UNCHANGED <<env_vars, agent_vars, metrics, state, next_state,
                                 steps_since_reset, success_run, last_call>>
             ELSE /\ profile' = en
                  /\ Reset
                  /\ agent_class' = AgentClassOf(an)
                  /\ epsilon' = NewAgent(AgentClassOf(an)).epsilon
                  /\ q_table' = NewAgent(AgentClassOf(an)).q_table
                  /\ alpha' = NewAgent(AgentClassOf(an)).alpha
                  /\ beta' = NewAgent(AgentClassOf(an)).beta
                  /\ metrics' = NewMetrics
                  /\ pc' = "constructed"
                  /\ error' = error
    /\ UNCHANGED <<n_episodes, episode, report, action, reward, done, info,
                   tally_vars, step_trace, agent_hist, count_vars>>

\* run_experiment(n_episodes): up to the for loop.  range(n_episodes) is
\* empty for n_episodes <= 0; nothing checks n_episodes.
RunExperiment ==
    /\ pc = "constructed"
    /\ \E n \in EpisodeCounts :
          /\ n_episodes' = n
          /\ episode' = 0
          /\ pc' = IF 0 < n THEN "episode" ELSE "report"
    /\ UNCHANGED <<env_vars, agent_vars, agent_type, env_type, metrics, report, error,
                   frame_vars, tally_vars, last_call, step_trace, agent_hist,
                   count_vars, steps_since_reset, success_run>>

\* run_episode up to its loop
StartEpisode ==
    /\ pc = "episode"
    /\ episode < MaxEpisodes
    /\ Reset
    /\ episode_reward' = 0
    /\ successes' = 0
    /\ actions_taken' = << >>
    /\ pc' = "select"
    /\ UNCHANGED <<profile, agent_vars, runner_vars, action, reward, done, info,
                   step_trace, agent_hist, count_vars>>

\* The draws of the first MaxFreeSteps steps of an experiment are all
\* explored; after them one draw is followed: the policy does not explore,
\* the lowest of the possible actions comes out, and the answer is a success.
FreeStep == n_steps < MaxFreeSteps

\* action = self.agent.select_action(state)
RunnerSelectWith(free) ==
    /\ pc = "select"
    /\ SelectAction(heap[state])
    /\ free \/ (sel_trace'.by # "explore"
                    /\ (agent_class = "HybridAgent" => sel_trace'.by = "greedy")
                    /\ (agent_class = "ThompsonSamplingAgent" => action' = 0)
                    /\ (sel_trace'.by = "greedy" =>
                          \A b \in BestActions(ValuesAt(q_table', to_key(heap[state]))) :
                              action' <= b))
    /\ n_selects' = n_selects + 1
    /\ pc' = "step"
    /\ UNCHANGED <<env_vars, runner_vars, state, next_state, reward, done, info,
                   tally_vars, step_trace, n_steps, n_updates, outcomes, steps_since_reset, success_run>>

RunnerSelect == RunnerSelectWith(FreeStep)

\* next_state, reward, done, info = self.env.step(action)
RunnerStepWith(free) ==
    /\ pc = "step"
    /\ \E success \in (IF free THEN BOOLEAN ELSE {TRUE}) :
          /\ Step(action, success)
          /\ outcomes' = IF success
                         THEN [outcomes EXCEPT ![action].succeeded = @ + 1]
                         ELSE [outcomes EXCEPT ![action].failed = @ + 1]
    /\ n_steps' = n_steps + 1
    /\ pc' = "update"
    /\ UNCHANGED <<agent_vars, runner_vars, state, action, tally_vars, agent_hist,
                   n_selects, n_updates>>

RunnerStep == RunnerStepWith(FreeStep)

\* self.agent.update(state, action, reward, next_state, done), the metrics of
\* the step, state = next_state, and the test of done.  update is passed the
\* two references; it reads the objects they refer to as they are now.
RunnerUpdate ==
    /\ pc = "update"
    /\ Update(heap[state], action, reward, heap[next_state], done)
    /\ n_updates' = n_updates + 1
    /\ episode_reward' = episode_reward + reward
    /\ successes' = IF info.success THEN successes + 1 ELSE successes
    /\ actions_taken' = Append(actions_taken, action)
    /\ metrics' = [metrics EXCEPT !.action_distribution = Tally(@, action)]
    /\ state' = next_state
    /\ pc' = IF done THEN "end" ELSE "select"
    /\ UNCHANGED <<env_vars, agent_type, env_type, n_episodes, episode, report, error,
                   next_state, action, reward, done, info, step_trace, n_steps,
                   n_selects, outcomes, steps_since_reset, success_run>>

\* The rest of run_episode and of the body of run_experiment's loop
EndEpisode ==
    /\ pc = "end"
    /\ LET m == [metrics EXCEPT
                    !.success_rates = Append(@, [num |-> successes, den |-> Len(actions_taken)]),
                    !.performance_history = Append(@, heap[state].performance),
                    !.difficulty_history = Append(@, actions_taken),
                    !.q_table_sizes = Append(@, get_q_table_size(agent_class, q_table))]
       IN  metrics' = RecordEpisode(m, episode_reward, episode)
    /\ episode' = episode + 1
    /\ pc' = IF episode + 1 < n_episodes THEN "episode" ELSE "report"
    /\ UNCHANGED <<env_vars, agent_vars, agent_type, env_type, n_episodes, report, error,
                   frame_vars, tally_vars, last_call, step_trace, agent_hist,
                   count_vars, steps_since_reset, success_run>>

\* _generate_report, at the end of run_experiment or called on its own on a
\* runner that has run nothing.  max(rewards) raises ValueError on an empty
\* list (np.mean and np.std of an empty list only warn and give nan).
GenerateReport ==
    /\ pc \in {"report", "constructed"}
    /\ IF metrics.episode_rewards = << >>
       THEN /\ pc' = "error"
            /\ error' = "ValueError"
            /\ report' = report
       ELSE /\ pc' = "reported"
            /\ report' = ReportOf(metrics, agent_type)
            /\ error' = error
    /\ UNCHANGED <<env_vars, agent_vars, agent_type, env_type, metrics, n_episodes,
                   episode, frame_vars, tally_vars, last_call, step_trace,
                   agent_hist, count_vars, steps_since_reset, success_run>>

Next ==
    \/ Construct
    \/ RunExperiment
    \/ StartEpisode
    \/ RunnerSelect
    \/ RunnerStep
    \/ RunnerUpdate
    \/ EndEpisode
    \/ GenerateReport

Spec == RunnerInit /\ [][Next]_vars

----------------------------------------------------------------------------
\* The first steps of an experiment with every draw of every step explored:
\* the runner as above, cut after MaxSampledSteps iterations of run_episode's
\* loop.

SampledSelect ==
    /\ n_selects < MaxSampledSteps
    /\ RunnerSelectWith(TRUE)

SampledStep == RunnerStepWith(TRUE)

\* The runners whose policy holds the sampling counters
SampledAgentTypes == {"thompson", "hybrid"}

\* The runner ExperimentRunner(an, en) in run_experiment(n) at the top of its
\* loop (after it, when n <= 0), nothing run yet
RunnerAt(an, en, n) ==
    /\ agent_type = an
    /\ env_type = en
    /\ profile = en
    /\ env_state = 1
    /\ heap = [x \in Refs |-> IF x = 1 THEN reset(0).state ELSE None]
    /\ fatigue = reset(0).fatigue
    /\ agent_class = AgentClassOf(an)
    /\ epsilon = NewAgent(AgentClassOf(an)).epsilon
    /\ q_table = NewAgent(AgentClassOf(an)).q_table
    /\ alpha = NewAgent(AgentClassOf(an)).alpha
    /\ beta = NewAgent(AgentClassOf(an)).beta
    /\ metrics = NewMetrics
    /\ n_episodes = n /\ episode = 0 /\ report = None /\ error = None
    /\ state = 1 /\ next_state = NoRef /\ action = None /\ reward = 0
    /\ done = FALSE /\ info = None
    /\ episode_reward = 0 /\ successes = 0 /\ actions_taken = << >>
    /\ pc = IF 0 < n THEN "episode" ELSE "report"
    /\ last_call = "reset"
    /\ step_trace = NoTrace /\ sel_trace = NoTrace /\ upd_trace = NoTrace
    /\ keys_passed = {} /\ keys_looked_up = {}
    /\ n_steps = 0 /\ n_selects = 0 /\ n_updates = 0 /\ outcomes = NoOutcomes
    /\ steps_since_reset = 0 /\ success_run = 0

\* run_experiment(10) of a runner with a sampling policy
SamplingInit ==
    \E an \in SampledAgentTypes, en \in ProfileNames : RunnerAt(an, en, 10)

SamplingNext ==
    \/ StartEpisode
    \/ SampledSelect
    \/ SampledStep
    \/ RunnerUpdate

SamplingSpec == SamplingInit /\ [][SamplingNext]_vars

----------------------------------------------------------------------------
\* run_experiment's loop over many episodes.  run_episode is taken by the
\* reward it returns, one of TestEpisodeRewards (each of them a total that 20
\* steps can add up to in every profile); what else it appends to the
\* metrics and does to the policy is left out.  The runner is the default
\* one, ExperimentRunner() with agent_type "hybrid" and env_type "average".

TestEpisodeRewards == {0 - 500, 0, 500}

\* The lengths of experiment: none, one short of two windows, two windows,
\* two windows and six
ConvergenceCounts == {0, 19, 20, 26}

\* How many times the reward differs from that of the episode before
RECURSIVE Changes(_)
Changes(rewards) ==
    IF Len(rewards) < 2 THEN 0
    ELSE Changes(Tail(rewards)) + (IF rewards[1] # rewards[2] THEN 1 ELSE 0)

ConvergenceInit ==
    \E n \in ConvergenceCounts : RunnerAt("hybrid", "average", n)

\* reward = self.run_episode(episode) and the rest of the loop's body
EpisodeReturns ==
    /\ pc = "episode"
    /\ \E r \in TestEpisodeRewards :
          /\ Changes(Append(metrics.episode_rewards, r)) <= MaxRewardChanges
          /\ metrics' = RecordEpisode(metrics, r, episode)
    /\ episode' = episode + 1
    /\ pc' = IF episode + 1 < n_episodes THEN "episode" ELSE "report"
    /\ UNCHANGED <<env_vars, agent_vars, agent_type, env_type, n_episodes, report, error,
                   frame_vars, tally_vars, last_call, step_trace, agent_hist,
                   count_vars, steps_since_reset, success_run>>

ConvergenceNext == EpisodeReturns \/ GenerateReport

ConvergenceSpec == ConvergenceInit /\ [][ConvergenceNext]_vars

----------------------------------------------------------------------------
\* Properties of the environment (EnvSpec)

InUnitRange(pr) == 500000 <= pr /\ pr <= 9500000

\* The three additive adjustments of the last step's reward, from the state
\* the step started in and the probability it used
Adjustments ==
    (IF 4000000 <= info.success_probability /\ info.success_probability <= 7000000
     THEN 500 ELSE 0)
    - (IF step_trace.before.performance > 700 /\ step_trace.action = 0 THEN 1000 ELSE 0)
    - (IF step_trace.before.performance < 300 /\ step_trace.action = 3 THEN 1000 ELSE 0)

StreakBonus(streak) ==
    (IF streak > 3 THEN 1000 ELSE 0) + (IF streak > 5 THEN 1000 ELSE 0)

\* C2 as stated: on a successful step the reward before the adjustments is
\* (action+1)*2 plus the streak bonuses of the streak AFTER the step's
\* increment.
C2_StreakBonusOnPostUpdateStreak ==
    (last_call = "step" /\ step_trace.success) =>
        reward - Adjustments =
            (step_trace.action + 1) * 2000 + StreakBonus(heap[env_state].streak)

\* C2 amended: on a successful step the reward before the adjustments is
\* (action+1)*2 plus the streak bonuses of the streak BEFORE the step's
\* increment (+1 when it is greater than 3, a further +1 when greater than 5).
C2_StreakBonusOnPreUpdateStreak ==
    (last_call = "step" /\ step_trace.success) =>
        /\ heap[env_state].streak = step_trace.before.streak + 1
        /\ reward - Adjustments =
               (step_trace.action + 1) * 2000 + StreakBonus(step_trace.before.streak)

\* The 4th consecutive success: three successes before it
C2_Witness ==
    last_call = "step" /\ step_trace.success /\ step_trace.before.streak = 3

\* C7: in every reachable environment state the success probability of every
\* action, and the one the last step used, lies in [0.05, 0.95].
C7_SuccessProbabilityClamped ==
    /\ heap[env_state].performance \in 0 .. 1000
    /\ fatigue \in 0 .. 50
    /\ \A a \in Actions :
          InUnitRange(_calculate_success_probability(profile, heap[env_state], fatigue, a))
    /\ last_call = "step" => InUnitRange(info.success_probability)

\* A step whose unclamped probability was above 0.95
C7_Witness ==
    /\ last_call = "step"
    /\ SuccessProbabilityNoClip(profile, step_trace.before, step_trace.fatigue,
                                step_trace.action) > 9500000

\* C8: counting from a reset, step returns done = FALSE on each of the first
\* 19 steps and TRUE on the 20th; done is questions_answered >= 20.
C8_DoneExactlyAtTwentiethStep ==
    last_call = "step" =>
        /\ heap[next_state].questions_answered = steps_since_reset
        /\ done <=> (steps_since_reset >= 20)

C8_Witness ==
    last_call = "step" /\ steps_since_reset = 20 /\ done

\* C9: reset leaves performance 0.5, streak 0, questions_answered 0,
\* difficulty 1 and fatigue 0, and returns that State.
C9_ResetYieldsDefaults ==
    last_call = "reset" =>
        /\ state = env_state
        /\ heap[state] = [performance |-> 500, streak |-> 0,
                          questions_answered |-> 0, difficulty |-> 1]
        /\ fatigue = 0

\* A reset that follows at least one step
C9_Witness ==
    last_call = "reset" /\ step_trace # NoTrace

\* The reward of the last step before the three adjustments, from the state
\* the step started in
ExpectedBase ==
    IF step_trace.success
    THEN (step_trace.action + 1) * 2000 + StreakBonus(step_trace.before.streak)
    ELSE 0 - (4 - step_trace.action) * 1000

InOptimalBand(pr) == 4000000 <= pr /\ pr <= 7000000

\* C13: the three adjustments of a step's reward are taken on the state
\* before the step's update: +0.5 iff the probability used for the draw
\* (that of the state, streak and fatigue before the update) is in
\* [0.4, 0.7], -1 iff the performance before was above 0.7 and the action is
\* 0, -1 iff it was below 0.3 and the action is 3, each whatever the others
\* and the outcome; so a failed action 3 with the probability outside the
\* band and a performance before of at least 0.3 has reward exactly -1.
C13_AdjustmentsOnPreUpdateState ==
    last_call = "step" =>
        LET b == step_trace.before
            a == step_trace.action
            pr == info.success_probability
        IN  /\ pr = clip(base_prob(profile) * b.performance * difficulty_factors[a]
                             * (100 - step_trace.fatigue)
                         + Min(10, b.streak * 2) * 100000,
                         500000, 9500000)
            /\ reward = ExpectedBase
                        + (IF InOptimalBand(pr) THEN 500 ELSE 0)
                        - (IF b.performance > 700 /\ a = 0 THEN 1000 ELSE 0)
                        - (IF b.performance < 300 /\ a = 3 THEN 1000 ELSE 0)
            /\ (~step_trace.success /\ a = 3 /\ ~InOptimalBand(pr) /\ b.performance >= 300)
                   => reward = 0 - 1000

\* A failed action 3 outside the band from a performance of at least 0.3 that
\* the failure takes below 0.3
C13_Witness ==
    /\ last_call = "step"
    /\ ~step_trace.success
    /\ step_trace.action = 3
    /\ ~InOptimalBand(info.success_probability)
    /\ step_trace.before.performance >= 300
    /\ heap[env_state].performance < 300

\* C16: performance stays in [0, 1]; a success adds learn_rate capped at 1
\* and adds one to the streak, a failure subtracts learn_rate / 2 floored at
\* 0 and zeroes the streak; so the streak is the number of successes since
\* the last failure or reset.
C16_PerformanceClampedAndStreakCounts ==
    /\ heap[env_state].performance \in 0 .. 1000
    /\ heap[env_state].streak = success_run
    /\ last_call = "step" =>
          LET b == step_trace.before
              t == heap[env_state]
          IN  IF step_trace.success
              THEN /\ t.performance = Min(1000, b.performance + learn_rate(profile))
                   /\ t.streak = b.streak + 1
              ELSE /\ 2 * t.performance = Max(0, 2 * b.performance - learn_rate(profile))
                   /\ t.streak = 0

\* A success that the cap at 1 cut short
C16_Witness ==
    /\ last_call = "step"
    /\ step_trace.success
    /\ step_trace.before.performance + learn_rate(profile) > 1000

\* C17: k steps after a reset the fatigue is min(0.5, k * fatigue_rate); no
\* step lowers it and it is 0 only when no step followed the last reset.
C17_FatigueIsCappedStepCount ==
    /\ fatigue = Min(50, steps_since_reset * fatigue_rate(profile))
    /\ last_call = "step" => fatigue >= step_trace.fatigue
    /\ fatigue = 0 <=> steps_since_reset = 0

\* A step taken with the fatigue already at its cap
C17_Witness ==
    last_call = "step" /\ step_trace.fatigue = 50 /\ fatigue = 50

----------------------------------------------------------------------------
\* Properties of a policy driven directly (AgentSpec)

TableSize == get_q_table_size(agent_class, q_table)

\* The table never got smaller in the last call
TableDidNotShrink ==
    /\ last_call = "select" => TableSize >= sel_trace.size_before
    /\ last_call = "update" => DOMAIN upd_trace.q_before \subseteq DOMAIN q_table

\* C3 as stated: the table size of a value-table policy is the number of
\* distinct keys passed to select_action or update so far, and it never
\* decreases.
C3_TableSizeCountsKeysPassed ==
    HasTable(agent_class) =>
        /\ TableSize = Cardinality(keys_passed)
        /\ TableDidNotShrink

\* C3 amended: the table size of a value-table policy is the number of
\* distinct keys it has looked up: the key of every select_action call that
\* did not explore, the state key of every update and the next-state key of
\* every non-terminal update.  It is at most the number of distinct keys
\* passed, and it never decreases.
C3_TableSizeCountsKeysLookedUp ==
    HasTable(agent_class) =>
        /\ DOMAIN q_table = keys_looked_up
        /\ TableSize = Cardinality(keys_looked_up)
        /\ keys_looked_up \subseteq keys_passed
        /\ TableDidNotShrink

\* Keys were passed that the table does not hold
C3_Witness ==
    /\ HasTable(agent_class)
    /\ TableSize > 0
    /\ TableSize < Cardinality(keys_passed)

\* C10: every HybridAgent.update applies the value-table update to the
\* internal table and increments exactly one of the chosen action's two
\* counters, for the same transition, whichever sub-policy selected before.
C10_HybridUpdateReachesBothPolicies ==
    (last_call = "update" /\ agent_class = "HybridAgent") =>
        LET u == upd_trace
            old == ValuesAt(u.q_before, u.state_key)[u.action]
            target == IF u.done THEN u.reward
                      ELSE u.reward
                           + (95 * MaxValue(ValuesAt(u.q_before, u.next_state_key))) \div 100
        IN  /\ u.state_key \in DOMAIN q_table
            /\ q_table[u.state_key][u.action] = old + (target - old) \div 10
            /\ \/ /\ alpha = [u.alpha_before EXCEPT ![u.action] = @ + 1]
                  /\ beta = u.beta_before
               \/ /\ alpha = u.alpha_before
                  /\ beta = [u.beta_before EXCEPT ![u.action] = @ + 1]

\* An update that follows a selection made by the sampling sub-policy
C10_Witness ==
    /\ last_call = "update"
    /\ agent_class = "HybridAgent"
    /\ sel_trace # NoTrace
    /\ sel_trace.by = "thompson"

\* The update calls counted by the counters: each counter starts at 1
CountedUpdates ==
    SumSeq([i \in 1 .. 4 |-> (alpha[i - 1] - 1) + (beta[i - 1] - 1)])

\* C14: an update of the sampling policy changes one counter: alpha of the
\* chosen action goes up by 1 when reward > 0, beta of the chosen action
\* goes up by 1 otherwise (reward 0 included); every other counter keeps its
\* value; no counter is ever lowered or reset: each stays at least 1 and
\* together they count every update made so far.
C14_UpdateIncrementsOneCounter ==
    HasCounters(agent_class) =>
        /\ \A b \in Actions : alpha[b] >= 1 /\ beta[b] >= 1
        /\ CountedUpdates = n_updates
        /\ last_call = "update" =>
              LET a == upd_trace.action
                  al == upd_trace.alpha_before
                  be == upd_trace.beta_before
              IN  /\ \A b \in Actions \ {a} : alpha[b] = al[b] /\ beta[b] = be[b]
                  /\ IF upd_trace.reward > 0
                     THEN alpha[a] = al[a] + 1 /\ beta[a] = be[a]
                     ELSE alpha[a] = al[a] /\ beta[a] = be[a] + 1

\* A second update, with reward exactly 0
C14_Witness ==
    /\ HasCounters(agent_class)
    /\ last_call = "update"
    /\ upd_trace.reward = 0
    /\ n_updates = 2
    /\ beta[upd_trace.action] = upd_trace.beta_before[upd_trace.action] + 1

\* The actions whose stored value for key k no other action's value exceeds
TiedAtMaximum(k) ==
    {b \in Actions : \A c \in Actions : ValuesAt(q_table, k)[c] <= ValuesAt(q_table, k)[b]}

\* C18: a greedy selection returns an action whose stored value is the
\* maximum of the 4 values under the state's key, and every action tied at
\* that maximum is a possible result of a greedy selection, not only the
\* lowest.
C18_GreedySelectsAnyMaximum ==
    /\ (last_call = "select" /\ sel_trace.by = "greedy") =>
          /\ sel_trace.key \in DOMAIN q_table
          /\ action \in TiedAtMaximum(sel_trace.key)
    /\ HasTable(agent_class) =>
          \A s \in TestStates : \A b \in TiedAtMaximum(to_key(s)) :
              \E o \in QSelectOutcomes(q_table, epsilon, s) :
                  o.by = "greedy" /\ o.action = b

\* The hybrid policy's value table (epsilon = 0) returned the highest of
\* several tied actions, over a lower-valued action 0
C18_Witness ==
    /\ agent_class = "HybridAgent"
    /\ last_call = "select"
    /\ sel_trace.by = "greedy"
    /\ action = 3
    /\ Cardinality(TiedAtMaximum(sel_trace.key)) = 3
    /\ q_table[sel_trace.key][0] < q_table[sel_trace.key][3]

----------------------------------------------------------------------------
\* Properties of the experiment runner (Spec)

ValidAgentTypes == {"qlearning", "thompson", "hybrid"}

\* The runner has just called update on a policy with a value table
AfterRunnerUpdate ==
    pc \in {"select", "end"} /\ last_call = "update" /\ HasTable(agent_class)

\* C1: the update of a runner step changes the action value stored under the
\* key of the state the action was selected in, bootstraps (when the step is
\* not terminal) from the key of the state after the step, and these are the
\* two keys update computes.
C1_UpdateUsesPreAndPostStepKeys ==
    AfterRunnerUpdate =>
        /\ upd_trace.state_key = sel_trace.key
        /\ upd_trace.next_state_key = to_key(heap[next_state])
        /\ \A k \in DOMAIN q_table : \A a \in Actions :
              q_table[k][a] # ValuesAt(upd_trace.q_before, k)[a] =>
                  (k = sel_trace.key /\ a = action)

\* C4: a runner constructed with an unknown policy name or an unknown profile
\* name is in an error state, and nothing is ever run for it.
C4_UnknownNamesFailFast ==
    (pc # "start" /\ (agent_type \notin ValidAgentTypes \/ env_type \notin ProfileNames)) =>
        /\ pc = "error"
        /\ n_selects = 0 /\ n_steps = 0 /\ n_updates = 0

\* C5: generating the report after zero episodes produces a report, with
\* final_performance, final_q_table_size and improvement 0 and no
\* convergence episode.
C5_ReportAfterZeroEpisodes ==
    (/\ pc = "reported" \/ (pc = "error" /\ error = "ValueError")
     /\ metrics.episode_rewards = << >>) =>
        /\ pc = "reported"
        /\ report.final_performance = 0
        /\ report.final_q_table_size = 0
        /\ report.improvement = 0
        /\ report.convergence_episode = Absent

\* C6: run_experiment called with an episode count outside [10, 500] fails
\* before any episode runs: no action is selected, no step is taken, no
\* update is applied, no metric is recorded and no report is returned.
C6_EpisodeCountOutOfRangeFailsFast ==
    (n_episodes # Absent /\ n_episodes \notin 10 .. 500) =>
        /\ n_selects = 0 /\ n_steps = 0 /\ n_updates = 0
        /\ metrics = NewMetrics
        /\ pc # "reported"

\* The sum of the action_distribution histogram
HistogramTotal ==
    SumSeq([i \in 1 .. 4 |-> metrics.action_distribution[i - 1]])

InEpisode == pc \in {"select", "step", "update", "end"}

BetweenEpisodes == pc \in {"episode", "report", "reported"}

\* C12: whatever the policy and the profile, an episode of the runner ends
\* after exactly 20 select, step, update iterations, with questions_answered
\* at 20; after n completed episodes the action_distribution counts sum to
\* 20 * n (no episode resets the histogram); every recorded success rate is
\* in [0, 1].
C12_EpisodesTakeTwentyIterations ==
    /\ InEpisode =>
          /\ heap[env_state].questions_answered = n_steps - 20 * episode
          /\ n_updates = 20 * episode + Len(actions_taken)
          /\ n_selects = n_updates + (IF pc \in {"step", "update"} THEN 1 ELSE 0)
          /\ n_steps = n_updates + (IF pc = "update" THEN 1 ELSE 0)
          /\ HistogramTotal = n_updates
          /\ Len(metrics.episode_rewards) = episode
          /\ IF pc = "end" THEN Len(actions_taken) = 20 ELSE Len(actions_taken) < 20
    /\ BetweenEpisodes =>
          /\ Len(metrics.episode_rewards) = episode
          /\ HistogramTotal = 20 * episode
          /\ n_selects = 20 * episode /\ n_steps = 20 * episode /\ n_updates = 20 * episode
    /\ (InEpisode \/ BetweenEpisodes) =>
          /\ Len(metrics.success_rates) = Len(metrics.episode_rewards)
          /\ \A i \in 1 .. Len(metrics.success_rates) :
                /\ metrics.success_rates[i].den = 20
                /\ 0 <= metrics.success_rates[i].num
                /\ metrics.success_rates[i].num <= metrics.success_rates[i].den

\* Two completed episodes, the first with a failed answer, and an action
\* chosen in both
C12_Witness ==
    /\ BetweenEpisodes
    /\ Len(metrics.episode_rewards) = 2
    /\ metrics.success_rates[1].num < 20
    /\ \E a \in Actions : metrics.action_distribution[a] > 20

----------------------------------------------------------------------------
\* Properties of the sampling policy driven by the environment (SamplingSpec)

\* C19: no reward of Environment.step is exactly 0, and it is positive iff
\* the answer was a success, for the step just taken and for every action
\* and outcome from the state reached; so, in the runner, alpha[a] - 1 of
\* the sampling policy is the number of successful steps with action a and
\* beta[a] - 1 the number of failed ones, and no update sees reward 0.
C19_RewardSignIsOutcome ==
    /\ last_call = "step" => (reward # 0 /\ (reward > 0 <=> info.success))
    /\ profile \in ProfileNames =>
          \A a \in Actions : \A success \in BOOLEAN :
              LET r == _calculate_reward(profile, heap[env_state], fatigue, a, success)
              IN  r # 0 /\ (r > 0 <=> success)
    /\ last_call = "update" => upd_trace.reward # 0
    /\ (HasCounters(agent_class) /\ pc \in {"constructed", "episode", "select", "step"}) =>
          \A a \in Actions :
              /\ alpha[a] - 1 = outcomes[a].succeeded
              /\ beta[a] - 1 = outcomes[a].failed

\* The sampling policy after a success, a failure with the same action and a
\* third step
C19_Witness ==
    /\ agent_class = "ThompsonSamplingAgent"
    /\ pc = "select"
    /\ last_call = "update"
    /\ n_updates = 3
    /\ \E a \in Actions : alpha[a] = 2 /\ beta[a] = 2 /\ outcomes[a].failed = 1

----------------------------------------------------------------------------
\* Properties of run_experiment over many episodes (ConvergenceSpec)

\* The sum of rewards[from .. to], 1-based
RECURSIVE SumRange(_, _, _)
SumRange(rewards, from, to) ==
    IF to < from THEN 0 ELSE rewards[to] + SumRange(rewards, from, to - 1)

\* After the episode of index e (the e+1 first rewards recorded) at least 20
\* rewards exist and the means of the last 10 and of the 10 before them are
\* less than 0.5 apart
ConvergedAt(rewards, e) ==
    /\ e + 1 >= 20
    /\ LET d == SumRange(rewards, e - 8, e + 1) - SumRange(rewards, e - 18, e - 9)
       IN  0 - 5000 < d /\ d < 5000

\* C11: within one run_experiment on a fresh runner, convergence_episode is
\* absent until the first episode after which at least 20 rewards exist and
\* the means of the last 10 and of the 10 before them are less than 0.5
\* apart; it is then that episode's index, and stays so whatever the later
\* rewards are.
C11_ConvergenceEpisodeIsFirstAndKept ==
    pc \in {"episode", "report", "reported"} =>
        LET rewards == metrics.episode_rewards
            at == {e \in 0 .. Len(rewards) - 1 : ConvergedAt(rewards, e)}
        IN  /\ Len(rewards) = episode
            /\ IF at = {}
               THEN metrics.convergence_episode = Absent
               ELSE /\ metrics.convergence_episode \in at
                    /\ \A e \in at : metrics.convergence_episode <= e

\* Convergence recorded at one episode, and among the later episodes one at
\* which the test succeeds again and one at which it fails
C11_Witness ==
    /\ pc \in {"episode", "report", "reported"}
    /\ metrics.convergence_episode # Absent
    /\ \E e1, e2 \in 0 .. Len(metrics.episode_rewards) - 1 :
          /\ metrics.convergence_episode < e1
          /\ metrics.convergence_episode < e2
          /\ ~ConvergedAt(metrics.episode_rewards, e1)
          /\ ConvergedAt(metrics.episode_rewards, e2)

\* _generate_report has ended, with a report or with the exception of
\* max(rewards)
ReportEnded == pc = "reported" \/ (pc = "error" /\ error = "ValueError")

\* C15: the improvement of the report is exactly 0 whenever fewer than 20
\* episodes are recorded, and exactly 0 whenever the mean of the first 10
\* rewards is exactly 0 (nothing is divided then).
C15_ImprovementZeroBelowTwentyOrZeroMean ==
    ReportEnded =>
        LET rewards == metrics.episode_rewards IN
        (Len(rewards) < 20 \/ SumRange(rewards, 1, 10) = 0) =>
            (pc = "reported" /\ report.improvement = 0)

\* What holds of the code: the same, of the reports that are produced
ImprovementZeroWhenReported ==
    pc = "reported" =>
        LET rewards == metrics.episode_rewards IN
        (Len(rewards) < 20 \/ SumRange(rewards, 1, 10) = 0) => report.improvement = 0
====
